---- MODULE Spec2Model ----
(***************************************************************************)
(* Model of pybacktrip's OMIKB backend (class OmikbStrategy): the          *)
(* namespace registry, the SPARQL text the operations compile, the calls   *)
(* they make on the knowledge-base client and the decoding of its replies. *)
(*                                                                         *)
(* Text.  A Python str is a sequence of tokens.  A leading character the   *)
(* code sniffs ( <  "  :  and the _: of a blank node) and every delimiter  *)
(* the code emits is a token of its own; the characters in between, which  *)
(* the code never inspects, form one token.  s.startswith(c) is "the first *)
(* token is c", s[1:] is Tail(s), + and str.format are \o.                 *)
(*                                                                         *)
(* Values.  None is the record None; a str is Str(tokens); a tripper       *)
(* Literal is Lit(tokens, lang, datatype).                                 *)
(***************************************************************************)
EXTENDS Integers, Sequences, FiniteSets, TLC

VARIABLES
    namespaces,   \* self.__namespaces: dict in insertion order, a sequence of [prefix, uri]
    nbinds,       \* number of bind calls made so far
    pc,           \* "idle", the operation blocked in its call on the client, or
                  \* "done": the operation has ended and its caller holds the outcome
    op,           \* the current (or last) operation: [name, arg]
    sent,         \* the calls the current (or last) operation made on the service
    reply,        \* what the service answered to the current (or last) operation
    out,          \* how the current (or last) operation ended
    written       \* what serialize() wrote to its destination (None: nothing)

vars == <<namespaces, nbinds, pc, op, sent, reply, out, written>>

----------------------------------------------------------------------------
(* Bounds *)

MaxBinds == 2      \* bind calls in one behaviour
MaxRows == 1       \* binding rows in one reply of the service

----------------------------------------------------------------------------
(* Python values *)

None == [kind |-> "none"]
Str(s) == [kind |-> "str", s |-> s]
Lit(s, lang, datatype) == [kind |-> "literal", s |-> s, lang |-> lang, datatype |-> datatype]

\* bool(v) of a str or None
truthy(v) == v.kind = "str" /\ v.s # <<>>

\* s.startswith(c), c one delimiter
startswith(s, c) == Len(s) > 0 /\ s[1] = c

\* s.startswith("_:")
startswith_bnode(s) == Len(s) > 1 /\ s[1] = "_" /\ s[2] = ":"

\* " ".join(parts)
RECURSIVE join(_)
join(parts) ==
    IF parts = <<>> THEN <<>>
    ELSE IF Len(parts) = 1 THEN parts[1]
    ELSE parts[1] \o <<" ">> \o join(Tail(parts))

\* the tokens of a prefix: the empty prefix is the empty str
PrefixText(prefix) == IF prefix = "" THEN <<>> ELSE <<prefix>>

----------------------------------------------------------------------------
(* Class attributes *)

GRAPH == <<"graph://main">>

DEFAULT_NAMESPACES ==
    << [prefix |-> "owl", uri |-> <<"http://www.w3.org/2002/07/owl#">>],
       [prefix |-> "rdf", uri |-> <<"http://www.w3.org/1999/02/22-rdf-syntax-ns#">>],
       [prefix |-> "rdfs", uri |-> <<"http://www.w3.org/2000/01/rdf-schema#">>],
       [prefix |-> "schema", uri |-> <<"http://schema.org/">>] >>

----------------------------------------------------------------------------
(* dict operations on the registry *)

Keys(d) == {d[i].prefix : i \in 1..Len(d)}

\* prefix in d
dict_contains(d, prefix) == \E i \in 1..Len(d) : d[i].prefix = prefix

\* d[prefix], for a prefix in d
dict_get(d, prefix) == d[CHOOSE i \in 1..Len(d) : d[i].prefix = prefix].uri

\* d[prefix] = uri: an existing key keeps its place, a new key goes last
dict_set(d, prefix, uri) ==
    IF dict_contains(d, prefix)
    THEN [i \in 1..Len(d) |-> IF d[i].prefix = prefix
                              THEN [prefix |-> prefix, uri |-> uri]
                              ELSE d[i]]
    ELSE Append(d, [prefix |-> prefix, uri |-> uri])

\* del d[prefix]
dict_del(d, prefix) == SelectSeq(d, LAMBDA e : e.prefix # prefix)

----------------------------------------------------------------------------
(* Results of a step that may raise, and the way an operation ends *)

Ok(v) == [ok |-> TRUE, v |-> v]
Fail(exc, detail) == [ok |-> FALSE, exc |-> exc, detail |-> detail]

Running == [kind |-> "running", value |-> None, exc |-> "", detail |-> None]
Returned(v) == [kind |-> "return", value |-> v, exc |-> "", detail |-> None]
\* an exception leaves the operation; yielded: what a generator gave before it
Raised(exc, detail, yielded) == [kind |-> "raise", value |-> yielded, exc |-> exc, detail |-> detail]

PyList(items) == [kind |-> "list", items |-> items]

NoReply == [kind |-> "none"]

----------------------------------------------------------------------------
(* Rendering of values into SPARQL text *)

Name == <<"s", "p", "o">>
Var == << <<"?s">>, <<"?p">>, <<"?o">> >>

\* "<{}{}>".format(self.__namespaces[""], rest): KeyError without the empty prefix
expand(ns, rest) ==
    IF dict_contains(ns, "")
    THEN Ok(<<"<">> \o dict_get(ns, "") \o rest \o <<">">>)
    ELSE Fail("KeyError", Str(<<>>))

\* tripper's Literal.n3()
n3(value) ==
    <<"\"">> \o value.s \o <<"\"">> \o
    (IF value.lang # None THEN <<"@">> \o value.lang.s
     ELSE IF value.datatype # None THEN <<"^^", "<">> \o value.datatype.s \o <<">">>
     ELSE <<>>)

\* one slot of whereSpec in triples()
triples_slot(ns, k, tripleValue) ==
    IF tripleValue = None THEN Ok(Var[k])
    ELSE IF startswith(tripleValue.s, "<") THEN Ok(tripleValue.s)
    ELSE IF startswith(tripleValue.s, ":") THEN expand(ns, Tail(tripleValue.s))
    ELSE Ok(<<"<">> \o tripleValue.s \o <<">">>)

\* add_triples() expanding the shorthand as triples() and remove() do
add_triples_value_unguarded(ns, value) ==
    IF value.kind = "literal" THEN Ok(n3(value))
    ELSE IF startswith(value.s, "<") \/ startswith(value.s, "\"") THEN Ok(value.s)
    ELSE IF startswith(value.s, ":") THEN expand(ns, Tail(value.s))
    ELSE Ok(<<"<">> \o value.s \o <<">">>)

\* one value of spec in add_triples()
add_triples_value(ns, value) ==
    IF value.kind = "literal" THEN Ok(n3(value))
    ELSE IF startswith(value.s, "<") \/ startswith(value.s, "\"") THEN Ok(value.s)
    ELSE IF dict_contains(ns, "") /\ startswith(value.s, ":") THEN expand(ns, Tail(value.s))
    ELSE IF startswith(value.s, ":") THEN Ok(value.s)
    ELSE Ok(<<"<">> \o value.s \o <<">">>)

\* one slot of spec in remove()
remove_slot(ns, k, value) ==
    IF value = None THEN Ok(Var[k])
    ELSE IF value.kind = "literal" THEN Ok(n3(value))
    ELSE IF startswith(value.s, "<") \/ startswith(value.s, "\"") THEN Ok(value.s)
    ELSE IF startswith(value.s, ":") THEN expand(ns, Tail(value.s))
    ELSE Ok(<<"<">> \o value.s \o <<">">>)

\* " ".join(part for ...) over parts that may raise: the first exception leaves
join_results(parts) ==
    IF \A i \in 1..Len(parts) : parts[i].ok
    THEN Ok(join([i \in 1..Len(parts) |-> parts[i].v]))
    ELSE parts[CHOOSE i \in 1..Len(parts) :
                   ~parts[i].ok /\ \A j \in 1..(i - 1) : parts[j].ok]

\* variables in triples(): the unbound positions, or "*"
triples_variables(triple) ==
    LET unbound == SelectSeq(<<1, 2, 3>>, LAMBDA k : triple[k] = None)
    IN  IF unbound = <<>> THEN << <<"*">> >>
        ELSE [i \in 1..Len(unbound) |-> Var[unbound[i]]]

NL == "\n            "

\* query in triples()
triples_query(ns, triple) ==
    LET whereSpec == join_results([k \in 1..3 |-> triples_slot(ns, k, triple[k])])
    IN  IF ~whereSpec.ok THEN whereSpec
        ELSE Ok(<<NL, "SELECT ">> \o join(triples_variables(triple))
                \o <<NL, "FROM ", "<">> \o GRAPH \o <<">">>
                \o <<NL, "WHERE {">> \o whereSpec.v \o <<"}", "\n        ">>)

\* cmd in add_triples()
add_triples_cmd(ns, ts) ==
    LET one(triple) ==
            LET r == join_results([k \in 1..3 |-> add_triples_value(ns, triple[k])])
            IN  IF r.ok THEN Ok(r.v \o <<" .">>) ELSE r
        spec == join_results([i \in 1..Len(ts) |-> one(ts[i])])
    IN  IF ~spec.ok THEN spec
        ELSE Ok(<<"INSERT DATA { GRAPH ", "<">> \o GRAPH \o <<">", " { ">>
                \o spec.v \o <<" } }">>)

\* cmd in remove()
remove_cmd(ns, triple) ==
    LET spec == join_results([k \in 1..3 |-> remove_slot(ns, k, triple[k])])
    IN  IF ~spec.ok THEN spec
        ELSE Ok(<<"DELETE WHERE { GRAPH ", "<">> \o GRAPH \o <<">", " { ">>
                \o spec.v \o <<" } }">>)

\* one round of the loop of format_query
prefix_clause(prefix, namespace, query) ==
    <<"PREFIX ">> \o PrefixText(prefix) \o <<":", " ", "<">> \o namespace \o <<">", " ">> \o query

RECURSIVE format_query_from(_, _, _)
format_query_from(ns, i, query) ==
    IF i > Len(ns) THEN query
    ELSE format_query_from(ns, i + 1, prefix_clause(ns[i].prefix, ns[i].uri, query))

\* format_query collecting the clauses in a header, in the registry's order
RECURSIVE header_from(_, _)
header_from(ns, i) ==
    IF i > Len(ns) THEN <<>>
    ELSE prefix_clause(ns[i].prefix, ns[i].uri, <<>>) \o header_from(ns, i + 1)

format_query_header_first(ns, query) == header_from(ns, 1) \o query

\* format_query(query)
format_query(ns, query) == format_query_from(ns, 1, query)

\* the query of serialize()
serialize_query ==
    <<"SELECT * WHERE { GRAPH ", "<">> \o GRAPH \o <<">", " { ?s ?p ?o } }">>

----------------------------------------------------------------------------
(* Decoding of the service's JSON bindings *)

\* __convert_json_entrydict(entrydict)
convert_json_entrydict(ns, entrydict) ==
    IF entrydict.type = "uri"
    THEN IF startswith(entrydict.value, ":")
         THEN LET e == expand(ns, Tail(entrydict.value))
              IN  IF e.ok THEN Ok(Str(e.v)) ELSE e
         ELSE Ok(Str(entrydict.value))
    ELSE IF entrydict.type = "literal"
    THEN Ok(Lit(entrydict.value, entrydict.lang, entrydict.datatype))
    ELSE IF entrydict.type = "bnode"
    THEN Ok(Str(IF startswith_bnode(entrydict.value)
                THEN entrydict.value
                ELSE <<"_", ":">> \o entrydict.value))
    ELSE Fail("ValueError", entrydict)

\* a tuple of cells that may raise: the first exception leaves
tuple_results(cells) ==
    IF \A i \in 1..Len(cells) : cells[i].ok
    THEN Ok([i \in 1..Len(cells) |-> cells[i].v])
    ELSE cells[CHOOSE i \in 1..Len(cells) :
                   ~cells[i].ok /\ \A j \in 1..(i - 1) : cells[j].ok]

\* triples() deciding by the pattern's slot, not by the binding's keys
triples_tuple_by_slot(ns, triple, binding) ==
    tuple_results([k \in 1..3 |->
        IF triple[k] # None THEN Ok(triple[k])
        ELSE IF Name[k] \in DOMAIN binding
        THEN convert_json_entrydict(ns, binding[Name[k]])
        ELSE Fail("KeyError", Str(<<Name[k]>>))])

\* the tuple triples() yields for one binding
triples_tuple(ns, triple, binding) ==
    tuple_results([k \in 1..3 |->
        IF Name[k] \in DOMAIN binding
        THEN convert_json_entrydict(ns, binding[Name[k]])
        ELSE Ok(triple[k])])

\* the loop of triples() over the bindings: yields until a binding raises
RECURSIVE triples_loop(_, _, _, _, _)
triples_loop(ns, triple, bindings, i, yielded) ==
    IF i > Len(bindings) THEN Returned(yielded)
    ELSE LET t == triples_tuple(ns, triple, bindings[i])
         IN  IF t.ok THEN triples_loop(ns, triple, bindings, i + 1, Append(yielded, t.v))
             ELSE Raised(t.exc, t.detail, yielded)

\* currentTriple in query(): one cell per variable of head.vars
query_tuple(ns, queryVars, binding) ==
    tuple_results([j \in 1..Len(queryVars) |->
        IF queryVars[j] \in DOMAIN binding
        THEN convert_json_entrydict(ns, binding[queryVars[j]])
        ELSE Fail("KeyError", Str(<<queryVars[j]>>))])

\* the loop of query() over the bindings
RECURSIVE query_loop(_, _, _, _, _)
query_loop(ns, queryVars, bindings, i, triplesRes) ==
    IF i > Len(bindings) THEN Returned(PyList(triplesRes))
    ELSE LET t == query_tuple(ns, queryVars, bindings[i])
         IN  IF t.ok THEN query_loop(ns, queryVars, bindings, i + 1, Append(triplesRes, t.v))
             ELSE Raised(t.exc, t.detail, <<>>)

----------------------------------------------------------------------------
(* What the operations do once the client's call has returned or raised *)

\* triples(), from res = self.kb.query(...) on: the exception of the call
\* leaves the generator, a reply without results fails res["results"]
triples_after(ns, triple, r) ==
    IF r.kind = "raise" THEN Raised("TransportError", None, <<>>)
    ELSE IF r.json.kind # "results" THEN Raised("LookupError", None, <<>>)
    ELSE triples_loop(ns, triple, r.json.bindings, 1, <<>>)

\* query() without its try/except
query_after_unguarded(ns, r) ==
    IF r.kind = "raise" THEN Raised("TransportError", None, <<>>)
    ELSE IF r.status = 400 THEN Raised("HTTPError", None, <<>>)
    ELSE IF r.json.kind # "results" THEN Raised("JSONDecodeError", None, <<>>)
    ELSE query_loop(ns, r.json.vars, r.json.bindings, 1, <<>>)

\* query() with the decoding loop inside its try/except
query_after_swallowing(ns, r) ==
    IF r.kind = "raise" THEN Returned(None)
    ELSE IF r.status = 400 THEN Returned(None)
    ELSE IF r.json.kind # "results" THEN Returned(None)
    ELSE LET res == query_loop(ns, r.json.vars, r.json.bindings, 1, <<>>)
         IN  IF res.kind = "raise" THEN Returned(None) ELSE res

\* query(), from response = self.kb.query(...) on
query_after(ns, r) ==
    IF r.kind = "raise" THEN Returned(None)
    ELSE IF r.status = 400 THEN Returned(None)
    ELSE IF r.json.kind # "results" THEN Returned(None)
    ELSE query_loop(ns, r.json.vars, r.json.bindings, 1, <<>>)

\* add_triples() and remove(): return self.kb.update(cmd)
update_after(r) ==
    IF r.kind = "raise" THEN Raised("TransportError", None, <<>>)
    ELSE Returned(r)

\* serialize(), from response = self.kb.query(q) on
serialize_after(destination, r) ==
    IF r.kind = "raise" THEN Raised("TransportError", None, <<>>)
    ELSE IF r.status = 400 THEN Returned(None)
    ELSE IF ~truthy(destination) THEN Returned(Str(r.text))
    ELSE Returned(Str(<<>>))

\* what serialize() writes to its destination
serialize_written(destination, r) ==
    IF r.kind = "response" /\ r.status # 400 /\ truthy(destination)
    THEN Str(r.text)
    ELSE None

\* parse(), after self.kb.import_ontology(...); remove_database(), after requests.delete(...)
call_after(r) ==
    IF r.kind = "raise" THEN Raised("TransportError", None, <<>>)
    ELSE Returned(None)

\* parse() with if in place of elif: one import per input given
parse_calls_each(source, location, data) ==
    (IF truthy(source) THEN <<[via |-> "kb.import_ontology", text |-> source.s]>> ELSE <<>>)
    \o (IF truthy(location) THEN <<[via |-> "kb.import_ontology", text |-> location.s]>> ELSE <<>>)
    \o (IF truthy(data) THEN <<[via |-> "kb.import_ontology", text |-> data.s]>> ELSE <<>>)

\* the calls parse() makes on the client
parse_calls(source, location, data) ==
    IF truthy(source) THEN <<[via |-> "kb.import_ontology", text |-> source.s]>>
    ELSE IF truthy(location) THEN <<[via |-> "kb.import_ontology", text |-> location.s]>>
    ELSE IF truthy(data) THEN <<[via |-> "kb.import_ontology", text |-> data.s]>>
    ELSE <<>>

----------------------------------------------------------------------------
(* Inputs *)

\* base_iri of the constructor
BaseIris == {<<"http://ex.org/">>}

\* prefixes and namespaces given to bind
Prefixes == {"", "owl", "rdf", "rdfs", "schema", "ex"}
Namespaces == {None, Str(<<>>), Str(<<"http://ex.org/">>), Str(<<"http://n.org/">>)}
FewPrefixes == {"", "ex"}
FewNamespaces == {None, Str(<<>>), Str(<<"http://n.org/">>)}

\* values of a triple: delimited URI, quoted literal, shorthand, bare, Literal
U_A == Str(<<"<", "http://a", ">">>)
Q_C == Str(<<"\"", "c", "\"">>)
S_F == Str(<<":", "Foo">>)
B_X == Str(<<"http://x">>)
L_5 == Lit(<<"5">>, None, Str(<<"http://www.w3.org/2001/XMLSchema#integer">>))

BoundValues == {U_A, Q_C, S_F, B_X, L_5}
Patterns == [1..3 -> BoundValues \cup {None}]
Triples == [1..3 -> BoundValues]
TripleLists == {<<t>> : t \in Triples} \cup {<<>>, << <<U_A, U_A, S_F>>, <<S_F, U_A, Q_C>> >>}

Queries == {<<"SELECT ?s ?o WHERE { ?s a ?o }">>}

\* entries of a binding: "type", "value", "xml:lang", "datatype" (None: key absent)
Entry(type, value, lang, datatype) ==
    [type |-> type, value |-> value, lang |-> lang, datatype |-> datatype]
E_short == Entry("uri", <<":", "Foo">>, None, None)
E_uri == Entry("uri", <<"http://x">>, None, None)
E_lit == Entry("literal", <<"5">>, None, Str(<<"http://www.w3.org/2001/XMLSchema#integer">>))
E_lang == Entry("literal", <<"chat">>, Str(<<"fr">>), None)
E_b0 == Entry("bnode", <<"b0">>, None, None)
E_b1 == Entry("bnode", <<"_", ":", "b0">>, None, None)
E_bad == Entry("triple", <<"t">>, None, None)

\* binding rows of a reply
Bindings ==
    { <<>>,
      [s |-> E_short],
      [o |-> E_lit],
      [p |-> E_uri, o |-> E_b0],
      [s |-> E_b1, p |-> E_short, o |-> E_lang],
      [o |-> E_bad],
      [s |-> E_short, o |-> E_bad],
      [s |-> E_bad, p |-> E_short] }

BindingLists == UNION {[1..n -> Bindings] : n \in 0..MaxRows}
VarLists == {<<"s">>, <<"s", "o">>, <<"o", "s">>, <<"s", "p", "o">>}

\* what the client's call can do: raise, or return a response
Response(status, json) ==
    [kind |-> "response", status |-> status, text |-> <<"body">>, json |-> json]
Results(queryVars, bindings) == [kind |-> "results", vars |-> queryVars, bindings |-> bindings]
NoJson == [kind |-> "invalid"]
TransportError == [kind |-> "raise"]

QueryReplies ==
    {TransportError, Response(400, NoJson), Response(200, NoJson)}
    \cup {Response(200, Results(v, b)) : v \in VarLists, b \in BindingLists}
TriplesReplies ==
    {TransportError, Response(400, NoJson), Response(200, NoJson)}
    \cup {Response(200, Results(<<"s", "p", "o">>, b)) : b \in BindingLists}
PlainReplies == {TransportError, Response(400, NoJson), Response(200, NoJson)}

Destinations == {Str(<<>>), Str(<<"out.ttl">>)}
Sources == {Str(<<>>), Str(<<"onto.ttl">>)}

----------------------------------------------------------------------------
(* The operations *)

\* __init__
Init ==
    /\ \E base_iri \in BaseIris : namespaces = dict_set(DEFAULT_NAMESPACES, "", base_iri)
    /\ nbinds = 0
    /\ pc = "idle"
    /\ op = [name |-> "", arg |-> None]
    /\ sent = <<>>
    /\ reply = NoReply
    /\ out = Returned(None)
    /\ written = None

\* an operation starts: the adapter is single-threaded, one operation at a time
Start(name, arg) ==
    /\ pc = "idle"
    /\ op' = [name |-> name, arg |-> arg]
    /\ reply' = NoReply
    /\ written' = None

\* the operation calls the client and blocks in the call
Calls(name, call) ==
    /\ sent' = <<call>>
    /\ pc' = name
    /\ out' = Running

\* the operation ends without a call
Ends(o) ==
    /\ sent' = <<>>
    /\ pc' = "done"
    /\ out' = o

\* the text triples() hands to kb.query
triples_request(ns, triple) ==
    LET query == triples_query(ns, triple)
    IN  IF query.ok THEN Ok(format_query(ns, query.v)) ELSE query

\* the text add_triples() hands to kb.update
add_triples_request(ns, ts) == add_triples_cmd(ns, ts)

\* the text remove() hands to kb.update
remove_request(ns, triple) == remove_cmd(ns, triple)

\* the text query() hands to kb.query
query_request(ns, query_object) == format_query(ns, query_object)

\* the text serialize() hands to kb.query
serialize_request(ns) == format_query(ns, serialize_query)

\* triples(triple), iterated by its caller, up to the call on the client
triples(triple) ==
    /\ Start("triples", triple)
    /\ LET q == triples_request(namespaces, triple)
       IN  IF q.ok THEN Calls("triples", [via |-> "kb.query", text |-> q.v])
           ELSE Ends(Raised(q.exc, q.detail, <<>>))
    /\ UNCHANGED <<namespaces, nbinds>>

\* add_triples(triples: ts), up to the call on the client
add_triples(ts) ==
    /\ Start("add_triples", ts)
    /\ LET cmd == add_triples_request(namespaces, ts)
       IN  IF cmd.ok THEN Calls("add_triples", [via |-> "kb.update", text |-> cmd.v])
           ELSE Ends(Raised(cmd.exc, cmd.detail, <<>>))
    /\ UNCHANGED <<namespaces, nbinds>>

\* remove(triple), up to the call on the client
remove(triple) ==
    /\ Start("remove", triple)
    /\ LET cmd == remove_request(namespaces, triple)
       IN  IF cmd.ok THEN Calls("remove", [via |-> "kb.update", text |-> cmd.v])
           ELSE Ends(Raised(cmd.exc, cmd.detail, <<>>))
    /\ UNCHANGED <<namespaces, nbinds>>

\* query(query_object), up to the call on the client
query(query_object) ==
    /\ Start("query", query_object)
    /\ Calls("query", [via |-> "kb.query", text |-> query_request(namespaces, query_object)])
    /\ UNCHANGED <<namespaces, nbinds>>

\* serialize(destination), up to the call on the client
serialize(destination) ==
    /\ Start("serialize", destination)
    /\ Calls("serialize", [via |-> "kb.query", text |-> serialize_request(namespaces)])
    /\ UNCHANGED <<namespaces, nbinds>>

\* parse(source, location, data), up to the call on the client
parse(source, location, data) ==
    /\ Start("parse", <<source, location, data>>)
    /\ LET calls == parse_calls(source, location, data)
       IN  IF calls = <<>>
           THEN Ends(Raised("ValueError", Str(<<"One of 'source', 'location', or 'data' must be provided.">>), <<>>))
           ELSE sent' = calls /\ pc' = "parse" /\ out' = Running
    /\ UNCHANGED <<namespaces, nbinds>>

\* remove_database(triplestore_url, database), up to requests.delete
remove_database(triplestore_url, database) ==
    /\ Start("remove_database", <<triplestore_url, database>>)
    /\ Calls("remove_database",
             [via |-> "requests.delete",
              text |-> triplestore_url \o <<"/">> \o database \o <<"?graph=">> \o GRAPH])
    /\ UNCHANGED <<namespaces, nbinds>>

\* the client's call returns or raises, and the blocked operation runs to its end
kb_returns(r) ==
    /\ pc \notin {"idle", "done"}
    /\ reply' = r
    /\ pc' = "done"
    /\ out' = CASE pc = "triples" -> triples_after(namespaces, op.arg, r)
                [] pc = "query" -> query_after(namespaces, r)
                [] pc \in {"add_triples", "remove"} -> update_after(r)
                [] pc = "serialize" -> serialize_after(op.arg, r)
                [] pc \in {"parse", "remove_database"} -> call_after(r)
    /\ written' = IF pc = "serialize" THEN serialize_written(op.arg, r) ELSE None
    /\ UNCHANGED <<namespaces, nbinds, op, sent>>

\* bind() testing "namespace is not None" in place of the truth of namespace
bind_namespaces_not_none(ns, prefix, namespace) ==
    IF namespace # None THEN dict_set(ns, prefix, namespace.s)
    ELSE IF dict_contains(ns, prefix) THEN dict_del(ns, prefix)
    ELSE ns

\* the registry after bind(prefix, namespace)
bind_namespaces(ns, prefix, namespace) ==
    IF truthy(namespace) THEN dict_set(ns, prefix, namespace.s)
    ELSE IF dict_contains(ns, prefix) THEN dict_del(ns, prefix)
    ELSE ns

\* bind(prefix, namespace)
bind(prefix, namespace) ==
    /\ nbinds < MaxBinds
    /\ Start("bind", <<prefix, namespace>>)
    /\ namespaces' = bind_namespaces(namespaces, prefix, namespace)
    /\ nbinds' = nbinds + 1
    /\ Ends(Returned(None))

\* namespaces()
get_namespaces ==
    /\ Start("namespaces", None)
    /\ Ends(Returned([kind |-> "dict", items |-> namespaces]))
    /\ UNCHANGED <<namespaces, nbinds>>

\* format_query(query), called by the user
format_query_call(query_object) ==
    /\ Start("format_query", query_object)
    /\ Ends(Returned(Str(format_query(namespaces, query_object))))
    /\ UNCHANGED <<namespaces, nbinds>>

\* create_database(database)
create_database ==
    /\ Start("create_database", None)
    /\ Ends(Returned(None))
    /\ UNCHANGED <<namespaces, nbinds>>

\* list_databases()
list_databases ==
    /\ Start("list_databases", None)
    /\ Ends(Returned(Str(GRAPH)))
    /\ UNCHANGED <<namespaces, nbinds>>

\* the caller, holding the outcome of one call, goes on to its next call
caller_goes_on ==
    /\ pc = "done"
    /\ pc' = "idle"
    /\ op' = [name |-> "", arg |-> None]
    /\ sent' = <<>>
    /\ reply' = NoReply
    /\ out' = Returned(None)
    /\ written' = None
    /\ UNCHANGED <<namespaces, nbinds>>

RepliesTo(name) ==
    IF name = "triples" THEN TriplesReplies
    ELSE IF name \in {"query", "serialize"} THEN QueryReplies
    ELSE PlainReplies

Next ==
    \/ \E prefix \in FewPrefixes, namespace \in FewNamespaces : bind(prefix, namespace)
    \/ \E triple \in Patterns : triples(triple)
    \/ \E ts \in TripleLists : add_triples(ts)
    \/ \E triple \in Patterns : remove(triple)
    \/ \E q \in Queries : query(q)
    \/ \E destination \in Destinations : serialize(destination)
    \/ \E source \in Sources, location \in Sources, data \in Sources : parse(source, location, data)
    \/ remove_database(<<"http://kb">>, <<"db">>)
    \/ get_namespaces
    \/ \E q \in Queries : format_query_call(q)
    \/ create_database
    \/ list_databases
    \/ \E r \in RepliesTo(pc) : kb_returns(r)
    \/ caller_goes_on

Spec == Init /\ [][Next]_vars

\* the registry alone, under every prefix and namespace
NextRegistry ==
    \/ \E prefix \in Prefixes, namespace \in Namespaces : bind(prefix, namespace)
    \/ get_namespaces
    \/ \E q \in Queries : format_query_call(q)
    \/ caller_goes_on

SpecRegistry == Init /\ [][NextRegistry]_vars

----------------------------------------------------------------------------
(* Vocabulary of the properties *)

OnePerPrefix(d) == \A i, j \in 1..Len(d) : d[i].prefix = d[j].prefix => i = j

\* part occurs in text
Contains(text, part) ==
    \E i \in 1..(Len(text) - Len(part) + 1) : SubSeq(text, i, i + Len(part) - 1) = part

HeadOf(text, n) == SubSeq(text, 1, n)

\* what stands before and after the k-th slot of a pattern in a query or update
Before(k) == IF k = 1 THEN {<<"WHERE {">>, <<" { ">>} ELSE {<<" ">>}
After(k) == IF k = 3 THEN {<<"}">>, <<" } }">>} ELSE {<<" ">>}

\* the k-th slot of the pattern stands in text as part
SlotIs(text, k, part) ==
    \E pre \in Before(k), post \in After(k) : Contains(text, pre \o part \o post)

\* a value written in the ':' shorthand
IsShorthand(v) == v.kind = "str" /\ startswith(v.s, ":")

\* the PREFIX clause of one entry of the registry
Clause(e) == <<"PREFIX ">> \o PrefixText(e.prefix) \o <<":", " ", "<">> \o e.uri \o <<">", " ">>

RECURSIVE ClausesOf(_)
ClausesOf(entries) ==
    IF entries = <<>> THEN <<>> ELSE Clause(Head(entries)) \o ClausesOf(Tail(entries))

Reverse(seq) == [i \in 1..Len(seq) |-> seq[Len(seq) + 1 - i]]

KnownTypes == {"uri", "literal", "bnode"}

----------------------------------------------------------------------------
(* C1 *)

\* C1: a bind call leaves at most one URI per prefix and changes the map as the
\* call says: bind(p, u) with non-empty u makes namespaces()[p] = u, with an
\* empty or absent u it leaves p out of the map (a no-op, without error, when p
\* was not there), every other prefix keeps its URI; namespaces() returns that map.
C1_BindAppliesCalls ==
    [][ /\ (pc = "idle" /\ op'.name = "bind") =>
               LET prefix == op'.arg[1]
                   namespace == op'.arg[2]
               IN  /\ out' = Returned(None)
                   /\ OnePerPrefix(namespaces')
                   /\ truthy(namespace) =>
                          /\ dict_contains(namespaces', prefix)
                          /\ dict_get(namespaces', prefix) = namespace.s
                   /\ ~truthy(namespace) => prefix \notin Keys(namespaces')
                   /\ ~truthy(namespace) /\ prefix \notin Keys(namespaces) =>
                          namespaces' = namespaces
                   /\ \A other \in (Keys(namespaces) \cup Keys(namespaces')) \ {prefix} :
                          /\ other \in Keys(namespaces) /\ other \in Keys(namespaces')
                          /\ dict_get(namespaces', other) = dict_get(namespaces, other)
        /\ (pc = "idle" /\ op'.name = "namespaces") =>
               /\ out'.value.items = namespaces
               /\ namespaces' = namespaces
      ]_vars

\* a second bind call has removed the empty prefix, or a default
C1_Witness ==
    /\ pc = "done" /\ op.name = "bind" /\ nbinds = 2
    /\ op.arg[1] \in {"", "owl"} /\ op.arg[2] = Str(<<>>)
    /\ op.arg[1] \notin Keys(namespaces)
    /\ Len(namespaces) = 3

----------------------------------------------------------------------------
(* C2 *)

\* C2: query() returns None, and raises nothing, when the client reports status
\* 400 and when the call on the client raises, whatever the registry holds.
C2_QuerySwallowsFailures ==
    (/\ pc = "done" /\ op.name = "query"
     /\ \/ reply.kind = "raise"
        \/ reply.kind = "response" /\ reply.status = 400)
    => out = Returned(None)

C2_Witness ==
    /\ pc = "done" /\ op.name = "query"
    /\ reply.kind = "response" /\ reply.status = 400
    /\ out = Returned(None)
    /\ "" \notin Keys(namespaces)

----------------------------------------------------------------------------
(* C3 *)

\* the value grammar: delimited or quoted as it is, shorthand expanded against
\* the empty prefix, anything else wrapped as a URI
GrammarValue(ns, v) ==
    IF startswith(v.s, "<") \/ startswith(v.s, "\"") THEN v.s
    ELSE IF startswith(v.s, ":") THEN <<"<">> \o dict_get(ns, "") \o Tail(v.s) \o <<">">>
    ELSE <<"<">> \o v.s \o <<">">>

\* C3: in the query triples() compiles, and in the update remove() compiles,
\* every bound slot given as a str stands as the value grammar renders it, in
\* each of the three positions.
C3_SlotsFollowGrammar ==
    (pc \in {"triples", "remove"}) =>
        \A k \in 1..3 :
            op.arg[k].kind = "str" =>
                SlotIs(sent[1].text, k, GrammarValue(namespaces, op.arg[k]))

----------------------------------------------------------------------------
(* C4 *)

\* C4: a uri entry whose value starts with ':' decodes to the empty-prefix
\* namespace followed by the rest of the value, any other uri entry to its
\* value as it is (seen in the cells query() returns).
C4_UriDecoding ==
    (/\ pc = "done" /\ op.name = "query" /\ out.kind = "return"
     /\ reply.kind = "response" /\ reply.status # 400 /\ reply.json.kind = "results")
    => \A i \in 1..Len(reply.json.bindings), j \in 1..Len(reply.json.vars) :
           LET entry == reply.json.bindings[i][reply.json.vars[j]]
           IN  entry.type = "uri" =>
                   out.value.items[i][j] =
                       IF startswith(entry.value, ":")
                       THEN Str(dict_get(namespaces, "") \o Tail(entry.value))
                       ELSE Str(entry.value)

----------------------------------------------------------------------------
(* C5 *)

\* C5 as stated: format_query() returns one PREFIX clause per entry of the
\* registry, in the registry's iteration order, then the query as given.
C5_ClausesInRegistryOrder ==
    (pc = "done" /\ op.name = "format_query") =>
        out.value.s = ClausesOf(namespaces) \o op.arg

\* C5 as amended: format_query() returns one PREFIX clause per entry of the
\* registry, in the reverse of the registry's iteration order (the clause of
\* the last entry first), then the query as given.
C5_ClausesInReverseOrder ==
    (pc = "done" /\ op.name = "format_query") =>
        /\ out.value.s = ClausesOf(Reverse(namespaces)) \o op.arg
        /\ Cardinality({i \in 1..Len(out.value.s) : out.value.s[i] = "PREFIX "})
               = Len(namespaces)

\* owl, unbound and bound again, is the last entry: its clause comes first
C5_Witness ==
    /\ pc = "done" /\ op.name = "format_query"
    /\ nbinds = 2 /\ Len(namespaces) = 5
    /\ namespaces[5].prefix = "owl"
    /\ HeadOf(out.value.s, 2) = <<"PREFIX ", "owl">>

----------------------------------------------------------------------------
(* C6 *)

\* C6: every query and update text on its way to the service starts with the
\* PREFIX declarations format_query makes of the registry of that moment.
C6_DispatchedTextIsPrefixed ==
    \A i \in 1..Len(sent) :
        sent[i].via \in {"kb.query", "kb.update"} =>
            LET declarations == ClausesOf(Reverse(namespaces))
            IN  /\ Len(sent[i].text) >= Len(declarations)
                /\ HeadOf(sent[i].text, Len(declarations)) = declarations

----------------------------------------------------------------------------
(* C7 *)

\* the calls an operation has made on the service
NetworkCalls == Len(sent)

\* a pattern whose compilation needs the empty prefix, which the registry lacks
LacksEmptyPrefix(name, pattern) ==
    /\ "" \notin Keys(namespaces)
    /\ \E k \in 1..3 :
           /\ pattern[k] # None
           /\ startswith(pattern[k].s, ":")
           /\ name = "remove" => pattern[k].kind = "str"

\* C7 as stated: every operation has made exactly one call on the service when
\* it returns (read of the operations that address the service or its
\* databases and end without an exception; the registry's own bind, namespaces
\* and format_query are left aside).
C7_ExactlyOneCall ==
    (/\ pc = "done" /\ out.kind = "return"
     /\ op.name \notin {"bind", "namespaces", "format_query"}) =>
        NetworkCalls = 1

\* C7 as amended: every operation makes at most one call on the service; it
\* makes exactly one when it is add_triples, query, serialize, remove_database,
\* parse with an input, or triples (once iterated) or remove of a pattern the
\* registry can compile, and none otherwise (bind, namespaces, format_query,
\* create_database, list_databases, parse without input, triples and remove
\* failing the lookup of the empty prefix); the call has returned or raised
\* before the operation returns, raises or yields.
C7_AtMostOneCallCompleted ==
    /\ NetworkCalls <= 1
    /\ (out.kind = "running") = (pc \notin {"idle", "done"})
    /\ (pc \notin {"idle", "done"}) => (NetworkCalls = 1 /\ reply = NoReply)
    /\ (pc = "done") =>
           /\ (NetworkCalls = 1) = (reply # NoReply)
           /\ (NetworkCalls = 1) =
                  \/ op.name \in {"add_triples", "query", "serialize", "remove_database"}
                  \/ op.name = "parse" /\ \E i \in 1..3 : truthy(op.arg[i])
                  \/ op.name \in {"triples", "remove"} /\ ~LacksEmptyPrefix(op.name, op.arg)

\* parse with a location and data, and no source, has made its one call
C7_Witness ==
    /\ pc = "done" /\ op.name = "parse"
    /\ ~truthy(op.arg[1]) /\ truthy(op.arg[2]) /\ truthy(op.arg[3])
    /\ NetworkCalls = 1 /\ reply # NoReply

----------------------------------------------------------------------------
(* C8 *)

\* the entries of a reply in the order triples() decodes them
RECURSIVE TriplesCells(_)
TriplesCells(bindings) ==
    IF bindings = <<>> THEN <<>>
    ELSE LET row == Head(bindings)
             names == SelectSeq(Name, LAMBDA n : n \in DOMAIN row)
         IN  [i \in 1..Len(names) |-> [missing |-> FALSE, entry |-> row[names[i]]]]
             \o TriplesCells(Tail(bindings))

\* the entries of a reply in the order query() decodes them
RECURSIVE QueryCells(_, _)
QueryCells(queryVars, bindings) ==
    IF bindings = <<>> THEN <<>>
    ELSE LET row == Head(bindings)
         IN  [j \in 1..Len(queryVars) |->
                 IF queryVars[j] \in DOMAIN row
                 THEN [missing |-> FALSE, entry |-> row[queryVars[j]]]
                 ELSE [missing |-> TRUE, entry |-> None]]
             \o QueryCells(queryVars, Tail(bindings))

\* the cell cannot be decoded: a variable without a binding, an unknown type,
\* or a shorthand uri while the registry has no empty prefix
Undecodable(cell) ==
    \/ cell.missing
    \/ cell.entry.type \notin KnownTypes
    \/ /\ cell.entry.type = "uri"
       /\ startswith(cell.entry.value, ":")
       /\ "" \notin Keys(namespaces)

\* decoding reaches cell i: no cell before it fails
Reaches(cells, i) == \A j \in 1..(i - 1) : ~Undecodable(cells[j])

DecodedCells ==
    IF op.name = "triples" THEN TriplesCells(reply.json.bindings)
    ELSE QueryCells(reply.json.vars, reply.json.bindings)

----------------------------------------------------------------------------
(* C9 *)

\* C9: every tuple triples() yields keeps the order subject, predicate, object
\* of the pattern: a position whose name (s, p, o) is in the binding holds the
\* decoded entry, every other position holds the caller's value; so a fully
\* bound pattern comes back unchanged from the empty binding.
C9_SlotOrderPreserved ==
    (/\ pc = "done" /\ op.name = "triples"
     /\ reply.kind = "response" /\ reply.json.kind = "results")
    => /\ out.kind = "return" => Len(out.value) = Len(reply.json.bindings)
       /\ \A i \in 1..Len(out.value) :
              LET binding == reply.json.bindings[i]
              IN  /\ Len(out.value[i]) = 3
                  /\ \A k \in 1..3 :
                         out.value[i][k] =
                             IF Name[k] \in DOMAIN binding
                             THEN convert_json_entrydict(namespaces, binding[Name[k]]).v
                             ELSE op.arg[k]
                  /\ (binding = <<>> /\ \A k \in 1..3 : op.arg[k] # None) =>
                         out.value[i] = op.arg

\* a binding for p and o has come back for a pattern whose s and p are bound
C9_Witness ==
    /\ pc = "done" /\ op.name = "triples" /\ out.kind = "return"
    /\ op.arg = <<B_X, U_A, None>>
    /\ reply.kind = "response" /\ reply.json.kind = "results"
    /\ Len(out.value) = 1
    /\ DOMAIN reply.json.bindings[1] = {"p", "o"}
    /\ out.value[1] = <<B_X, Str(<<"http://x">>), Str(<<"_", ":", "b0">>)>>

----------------------------------------------------------------------------
(* C10 *)

\* the value stands unchanged among the values of an INSERT DATA update
StandsUnchanged(text, v) ==
    \E pre \in {<<" { ">>, <<" ">>}, post \in {<<" ">>, <<" .">>} :
        Contains(text, pre \o v.s \o post)

\* C10: while the registry has no empty prefix, triples() and remove() of a
\* pattern with a ':' shorthand value raise a lookup error, dispatch nothing
\* and leave the registry as it is; add_triples() of triples with such a value
\* raises nothing: it dispatches one update in which the value stands unchanged.
C10_ShorthandWithoutEmptyPrefix ==
    [][ (pc = "idle" /\ "" \notin Keys(namespaces)) =>
            /\ (/\ op'.name \in {"triples", "remove"}
                /\ \E k \in 1..3 : IsShorthand(op'.arg[k])) =>
                   /\ pc' = "done"
                   /\ out'.kind = "raise" /\ out'.exc = "KeyError"
                   /\ sent' = <<>>
                   /\ namespaces' = namespaces
            /\ (/\ op'.name = "add_triples"
                /\ \E i \in 1..Len(op'.arg), k \in 1..3 : IsShorthand(op'.arg[i][k])) =>
                   /\ pc' = "add_triples"
                   /\ out' = Running
                   /\ Len(sent') = 1 /\ sent'[1].via = "kb.update"
                   /\ \A i \in 1..Len(op'.arg), k \in 1..3 :
                          IsShorthand(op'.arg[i][k]) =>
                              StandsUnchanged(sent'[1].text, op'.arg[i][k])
                   /\ namespaces' = namespaces
      ]_vars

\* bind has removed the empty prefix and remove() has met a shorthand object
C10_Witness ==
    /\ pc = "done" /\ op.name = "remove"
    /\ nbinds > 0 /\ "" \notin Keys(namespaces)
    /\ IsShorthand(op.arg[3]) /\ ~IsShorthand(op.arg[1]) /\ ~IsShorthand(op.arg[2])
    /\ out.exc = "KeyError" /\ sent = <<>>

====
